---- MODULE Spec2Model ----
(***************************************************************************)
(* rend3: CameraManager (rend3/src/resources/camera.rs) and the starter    *)
(* render graph assembly (rend3-routine/src/base.rs).                      *)
(*                                                                         *)
(* Numbers.  f32 values are modelled in fixed point with scale Fx (1.0 is  *)
(* Fx).  Camera poses are drawn from axis-aligned look directions, for     *)
(* which normalisation and cross products are exact, so view matrices have *)
(* integer entries (scale 1) and projection matrices have scale Fx.        *)
(* Angles yaw and pitch are counted in quarter turns.  A Mat4 is a tuple   *)
(* of four columns, each a tuple of four rows, as glam stores it.          *)
(* An Option is <<>> for None and <<x>> for Some(x).                       *)
(***************************************************************************)
EXTENDS Integers, Sequences, FiniteSets, TLC

VARIABLES
    \* CameraManager fields (camera.rs:6-12)
    orig_view, view, proj, data, aspect_ratio,
    \* a second CameraManager driven by the same calls, its poses differing
    \* from the first one's in location only
    twin,
    \* the last call made on the camera and the value it returned
    call, ret,
    \* the pose most recently supplied by new, set_data or set_aspect_data, and the
    \* aspect ratio that was stored when the most recent of new, set_data,
    \* set_aspect_ratio and set_aspect_data was called (for new, the ratio it stored)
    supplied, old_aspect_ratio,
    \* render graph under assembly (base.rs:167-180) and position in add_to_graph
    graph, inputs, settings, state, pc

camVars == <<orig_view, view, proj, data, aspect_ratio, twin, call, ret, supplied, old_aspect_ratio>>
graphVars == <<graph, inputs, settings, state, pc>>
vars == <<orig_view, view, proj, data, aspect_ratio, twin, call, ret, supplied,
          old_aspect_ratio, graph, inputs, settings, state, pc>>

----------------------------------------------------------------------------
(* Bounds *)

MaxCoord == 1
MaxShadows == 2

----------------------------------------------------------------------------
(* Fixed point and options *)

Fx == 1000

None == <<>>
Some(x) == <<x>>

unwrap_or(o, d) == IF o = None THEN d ELSE o[1]

----------------------------------------------------------------------------
(* Vectors and matrices (glam) *)

Sgn(x) == IF x > 0 THEN 1 ELSE IF x < 0 THEN -1 ELSE 0

VecAdd(a, b) == <<a[1] + b[1], a[2] + b[2], a[3] + b[3]>>
VecSub(a, b) == <<a[1] - b[1], a[2] - b[2], a[3] - b[3]>>
Dot(a, b) == a[1] * b[1] + a[2] * b[2] + a[3] * b[3]
Cross(a, b) == <<a[2] * b[3] - a[3] * b[2],
                 a[3] * b[1] - a[1] * b[3],
                 a[1] * b[2] - a[2] * b[1]>>

\* normalize, exact on vectors along one axis
Normalize(v) == <<Sgn(v[1]), Sgn(v[2]), Sgn(v[3])>>

Vec3_ZERO == <<0, 0, 0>>
Vec3_Y == <<0, 1, 0>>
Vec3A_Z == <<0, 0, 1>>

\* Mat4 * Mat4; element (column c, row r) is the sum over k of a[k][r] * b[c][k]
MatMul(a, b) ==
    [c \in 1..4 |-> [r \in 1..4 |->
        a[1][r] * b[c][1] + a[2][r] * b[c][2] + a[3][r] * b[c][3] + a[4][r] * b[c][4]]]

\* Mat4::look_at_lh(eye, center, up)
look_at_lh(eye, center, up) ==
    LET f == Normalize(VecSub(center, eye))
        s == Normalize(Cross(up, f))
        u == Cross(f, s)
    IN  << <<s[1], u[1], f[1], 0>>,
           <<s[2], u[2], f[2], 0>>,
           <<s[3], u[3], f[3], 0>>,
           <<-Dot(s, eye), -Dot(u, eye), -Dot(f, eye), 1>> >>

\* sine and cosine of an angle given in quarter turns
SinQ(q) == CASE q % 4 = 0 -> 0 [] q % 4 = 1 -> 1 [] q % 4 = 2 -> 0 [] OTHER -> -1
CosQ(q) == CASE q % 4 = 0 -> 1 [] q % 4 = 1 -> 0 [] q % 4 = 2 -> -1 [] OTHER -> 0

\* Mat3A::from_euler(EulerRot::YXZ, yaw, pitch, 0.0) * v
from_euler_YXZ_mul(yaw, pitch, v) ==
    LET \* rotation about X by pitch
        x1 == v[1]
        y1 == CosQ(pitch) * v[2] - SinQ(pitch) * v[3]
        z1 == SinQ(pitch) * v[2] + CosQ(pitch) * v[3]
    IN  \* then rotation about Y by yaw
        <<CosQ(yaw) * x1 + SinQ(yaw) * z1, y1, CosQ(yaw) * z1 - SinQ(yaw) * x1>>

\* cos/sin of half the vertical field of view (degrees), scaled by Fx
CotHalfFov(vfov) == CASE vfov = 60 -> 1732 [] vfov = 90 -> 1000 [] vfov = 120 -> 577

\* Mat4::perspective_infinite_reverse_lh(fov_y_radians, aspect_ratio, z_near)
perspective_infinite_reverse_lh(vfov, aspect, near) ==
    LET h == CotHalfFov(vfov)
        w == (h * Fx) \div aspect
    IN  << <<w, 0, 0, 0>>,
           <<0, h, 0, 0>>,
           <<0, 0, 0, Fx>>,
           <<0, 0, near * Fx, 0>> >>

\* Mat4::orthographic_lh(left, right, bottom, top, near, far), arguments scaled by Fx
orthographic_lh(left, right, bottom, top, near, far) ==
    LET rcp_width == (Fx * Fx) \div (right - left)
        rcp_height == (Fx * Fx) \div (top - bottom)
        r == (Fx * Fx) \div (far - near)
    IN  << <<rcp_width + rcp_width, 0, 0, 0>>,
           <<0, rcp_height + rcp_height, 0, 0>>,
           <<0, 0, r, 0>>,
           <<-(((left + right) * rcp_width) \div Fx),
             -(((top + bottom) * rcp_height) \div Fx),
             -((r * near) \div Fx),
             Fx>> >>

----------------------------------------------------------------------------
(* Camera poses *)

Locations == {<<x, 0, 0>> : x \in 0..MaxCoord}

Projections ==
    [kind : {"Projection"}, vfov : {60, 90}, near : {1}, yaw : {0}, pitch : {0}]
    \cup
    [kind : {"Projection"}, vfov : {60}, near : {2}, yaw : {1}, pitch : {0, 2}]
    \cup
    [kind : {"Orthographic"}, size : {<<4, 2, 8>>}, direction : {<<0, 0, 1>>, <<-2, 0, 0>>}]

Cameras == [location : Locations, projection : Projections]

AspectRatios == {Fx, 1778}
AspectOptions == {None} \cup {Some(a) : a \in AspectRatios}

----------------------------------------------------------------------------
(* camera.rs: matrix computation *)

compute_look_offset(d) ==
    IF d.projection.kind = "Projection"
    THEN from_euler_YXZ_mul(d.projection.yaw, d.projection.pitch, Vec3A_Z)
    ELSE d.projection.direction

compute_view_matrix(d) ==
    LET look_offset == compute_look_offset(d)
    IN  look_at_lh(d.location, VecAdd(d.location, look_offset), Vec3_Y)

compute_projection_matrix(d, ar) ==
    IF d.projection.kind = "Orthographic"
    THEN LET size == d.projection.size
             half == <<(size[1] * Fx) \div 2, (size[2] * Fx) \div 2, (size[3] * Fx) \div 2>>
         IN  orthographic_lh(-half[1], half[1], -half[2], half[2], -half[3], half[3])
    ELSE perspective_infinite_reverse_lh(d.projection.vfov, ar, d.projection.near)

\* the origin matrix built at the camera's location
compute_origin_matrix_at_location(d) ==
    LET look_offset == compute_look_offset(d)
    IN  look_at_lh(d.location, VecAdd(d.location, look_offset), Vec3_Y)

compute_origin_matrix(d) ==
    LET look_offset == compute_look_offset(d)
    IN  look_at_lh(Vec3_ZERO, look_offset, Vec3_Y)

----------------------------------------------------------------------------
(* camera.rs: CameraManager *)

CameraManager_new(d, opt) ==
    LET ar == unwrap_or(opt, Fx)
    IN  [orig_view |-> compute_origin_matrix(d),
         view |-> compute_view_matrix(d),
         proj |-> compute_projection_matrix(d, ar),
         data |-> d,
         aspect_ratio |-> ar]

\* set_aspect_data projecting with the ratio it is given
set_aspect_data_new_ratio(self, d, ar) ==
    [orig_view |-> compute_origin_matrix(d),
     view |-> compute_view_matrix(d),
     proj |-> compute_projection_matrix(d, ar),
     data |-> d,
     aspect_ratio |-> ar]

\* set_aspect_data not storing the pose
set_aspect_data_keeps_pose(self, d, ar) ==
    [orig_view |-> compute_origin_matrix(d),
     view |-> compute_view_matrix(d),
     proj |-> compute_projection_matrix(d, self.aspect_ratio),
     data |-> self.data,
     aspect_ratio |-> ar]

\* set_aspect_data not recomputing the projection
set_aspect_data_keeps_proj(self, d, ar) ==
    [orig_view |-> compute_origin_matrix(d),
     view |-> compute_view_matrix(d),
     proj |-> self.proj,
     data |-> d,
     aspect_ratio |-> ar]

set_aspect_data(self, d, ar) ==
    [orig_view |-> compute_origin_matrix(d),
     view |-> compute_view_matrix(d),
     proj |-> compute_projection_matrix(d, self.aspect_ratio),
     data |-> d,
     aspect_ratio |-> ar]

\* set_data resetting the aspect ratio to its default
set_data_resets_aspect(self, d) == set_aspect_data(self, d, Fx)

set_data(self, d) == set_aspect_data(self, d, self.aspect_ratio)

\* set_aspect_ratio passing the stored ratio on instead of its argument
set_aspect_ratio_ignores_argument(self, opt) ==
    set_aspect_data(self, self.data, self.aspect_ratio)

\* set_aspect_ratio taking None as "keep the stored ratio"
set_aspect_ratio_none_keeps(self, opt) ==
    set_aspect_data(self, self.data, unwrap_or(opt, self.aspect_ratio))

set_aspect_ratio(self, opt) == set_aspect_data(self, self.data, unwrap_or(opt, Fx))

get_data(self) == self.data
get_view(self) == self.view
\* view_proj multiplying in the other order
view_proj_swapped(self) == MatMul(self.view, self.proj)

view_proj(self) == MatMul(self.proj, self.view)
origin_view_proj(self) == MatMul(self.proj, self.orig_view)
get_proj(self) == self.proj

\* the CameraManager as a value
Self ==
    [orig_view |-> orig_view, view |-> view, proj |-> proj, data |-> data,
     aspect_ratio |-> aspect_ratio]

\* the pose d moved to location l
AtLocation(d, l) == [d EXCEPT !.location = l]

\* the fields of the camera become those of the value s
Becomes(s) ==
    /\ orig_view' = s.orig_view
    /\ view' = s.view
    /\ proj' = s.proj
    /\ data' = s.data
    /\ aspect_ratio' = s.aspect_ratio

\* the camera is the value s
Is(s) ==
    /\ orig_view = s.orig_view
    /\ view = s.view
    /\ proj = s.proj
    /\ data = s.data
    /\ aspect_ratio = s.aspect_ratio

NoRet == "unit"

New ==
    \E d \in Cameras, opt \in AspectOptions, l \in Locations :
        /\ Becomes(CameraManager_new(d, opt))
        /\ twin' = CameraManager_new(AtLocation(d, l), opt)
        /\ supplied' = d
        /\ old_aspect_ratio' = unwrap_or(opt, Fx)
        /\ call' = [op |-> "new", data |-> Some(d), aspect |-> opt]
        /\ ret' = NoRet
        /\ UNCHANGED graphVars

SetData ==
    \E d \in Cameras, l \in Locations :
        /\ Becomes(set_data(Self, d))
        /\ twin' = set_data(twin, AtLocation(d, l))
        /\ supplied' = d
        /\ old_aspect_ratio' = aspect_ratio
        /\ call' = [op |-> "set_data", data |-> Some(d), aspect |-> None]
        /\ ret' = NoRet
        /\ UNCHANGED graphVars

SetAspectRatio ==
    \E opt \in AspectOptions :
        /\ Becomes(set_aspect_ratio(Self, opt))
        /\ twin' = set_aspect_ratio(twin, opt)
        /\ supplied' = supplied
        /\ old_aspect_ratio' = aspect_ratio
        /\ call' = [op |-> "set_aspect_ratio", data |-> None, aspect |-> opt]
        /\ ret' = NoRet
        /\ UNCHANGED graphVars

SetAspectData ==
    \E d \in Cameras, ar \in AspectRatios, l \in Locations :
        /\ Becomes(set_aspect_data(Self, d, ar))
        /\ twin' = set_aspect_data(twin, AtLocation(d, l), ar)
        /\ supplied' = d
        /\ old_aspect_ratio' = aspect_ratio
        /\ call' = [op |-> "set_aspect_data", data |-> Some(d), aspect |-> Some(ar)]
        /\ ret' = NoRet
        /\ UNCHANGED graphVars

\* an accessor: takes &self, returns r
Accessor(name, r) ==
    /\ call' = [op |-> name, data |-> None, aspect |-> None]
    /\ ret' = r
    /\ UNCHANGED <<orig_view, view, proj, data, aspect_ratio, twin, supplied, old_aspect_ratio>>

GetData ==
    /\ Accessor("get_data", get_data(Self))
    /\ UNCHANGED graphVars

View ==
    /\ Accessor("view", get_view(Self))
    /\ UNCHANGED graphVars

ViewProj ==
    /\ Accessor("view_proj", view_proj(Self))
    /\ UNCHANGED graphVars

OriginViewProj ==
    /\ Accessor("origin_view_proj", origin_view_proj(Self))
    /\ UNCHANGED graphVars

Proj ==
    /\ Accessor("proj", get_proj(Self))
    /\ UNCHANGED graphVars


----------------------------------------------------------------------------
(* rend3::graph as used by base.rs: handles into the graph's tables *)

\* a fresh RenderGraph
EmptyGraph == [targets |-> <<>>, data |-> <<>>, nodes |-> <<>>]

\* RenderGraph::add_render_target: the graph with the descriptor recorded, and its handle
add_render_target(g, desc) ==
    [graph |-> [g EXCEPT !.targets = Append(@, desc)],
     handle |-> [resource |-> Len(g.targets) + 1, mips |-> None, viewport |-> None]]

\* RenderGraph::add_data::<T>
add_data(g, type) ==
    [graph |-> [g EXCEPT !.data = Append(@, type)],
     handle |-> [data |-> Len(g.data) + 1]]

\* a routine's add-to-graph call: one node carrying the arguments it was given
add_node(g, node) == [g EXCEPT !.nodes = Append(@, node)]

\* RenderTargetHandle::set_viewport / set_mips
set_viewport(handle, rect) == [handle EXCEPT !.viewport = Some(rect)]
set_mips(handle, range) == [handle EXCEPT !.mips = Some(range)]

ViewportRect_new(offset, size) == [offset |-> offset, size |-> size]
UVec2_splat(n) == <<n, n>>

\* SampleCount::needs_resolve
needs_resolve(samples) == samples /= 1

\* RenderPassTargets::resolved_color(index), index counted from 0
resolved_color(renderpass, index) ==
    LET t == renderpass.targets[index + 1]
    IN  unwrap_or(t.resolve, t.color)

RENDER_ATTACHMENT_TEXTURE_BINDING == {"RENDER_ATTACHMENT", "TEXTURE_BINDING"}

----------------------------------------------------------------------------
(* base.rs: inputs of add_to_graph *)

ShadowMaps == [offset : {<<0, 0>>, <<512, 0>>}, size : {256, 512}]
ShadowDescs == [map : ShadowMaps]

RECURSIVE SeqsUpTo(_, _)
SeqsUpTo(S, n) ==
    IF n = 0 THEN {<<>>}
    ELSE LET shorter == SeqsUpTo(S, n - 1)
         IN  shorter \cup {Append(q, x) : q \in {t \in shorter : Len(t) = n - 1}, x \in S}

SampleCounts == {1, 4}

\* the output target the caller supplies, numbered 0: the targets add_render_target
\* allocates are numbered from 1
OutputHandle == [resource |-> 0, mips |-> None, viewport |-> None]

Inputs ==
    [eval_output : [shadows : SeqsUpTo(ShadowDescs, MaxShadows),
                    shadow_target_size : {<<1024, 512>>}],
     routines : [pbr : {"pbr"}, skybox : {None, Some("skybox")}, tonemapping : {"tonemapping"}],
     target : [handle : {OutputHandle}, resolution : {<<800, 600>>}, samples : SampleCounts]]

Settings == [ambient_color : {"ambient"}, clear_color : {"black", "blue"}]

----------------------------------------------------------------------------
(* base.rs: DepthTargets *)

DepthTargets_new(g, resolution, samples) ==
    LET a == add_render_target(g,
                [label |-> "hdr depth", resolution |-> resolution, depth |-> 1,
                 mip_levels |-> None, samples |-> 1, format |-> "Depth32Float",
                 usage |-> RENDER_ATTACHMENT_TEXTURE_BINDING])
        b == add_render_target(a.graph,
                [label |-> "hdr depth multisampled", resolution |-> resolution, depth |-> 1,
                 mip_levels |-> Some(1), samples |-> samples, format |-> "Depth32Float",
                 usage |-> RENDER_ATTACHMENT_TEXTURE_BINDING])
    IN  IF needs_resolve(samples)
        THEN [graph |-> b.graph,
              depth |-> [single_sample_mipped |-> a.handle, multi_sample |-> Some(b.handle)]]
        ELSE [graph |-> a.graph,
              depth |-> [single_sample_mipped |-> a.handle, multi_sample |-> None]]

\* rendering_target ignoring the multisample target
rendering_target_single(depth) == set_mips(depth.single_sample_mipped, <<0, 1>>)

rendering_target(depth) ==
    unwrap_or(depth.multi_sample, set_mips(depth.single_sample_mipped, <<0, 1>>))

----------------------------------------------------------------------------
(* base.rs: BaseRenderGraphIntermediateState *)

IntermediateState_new(g, in, se) ==
    LET sbg == add_data(g, "BindGroup")
        fbg == add_data(sbg.graph, "BindGroup")
        shadow == add_render_target(fbg.graph,
                [label |-> "shadow target", resolution |-> in.eval_output.shadow_target_size,
                 depth |-> 1, mip_levels |-> Some(1), samples |-> 1,
                 format |-> "INTERNAL_SHADOW_DEPTH_FORMAT",
                 usage |-> RENDER_ATTACHMENT_TEXTURE_BINDING])
        color == add_render_target(shadow.graph,
                [label |-> "hdr color", resolution |-> in.target.resolution, depth |-> 1,
                 mip_levels |-> Some(1), samples |-> in.target.samples,
                 format |-> "Rgba16Float", usage |-> RENDER_ATTACHMENT_TEXTURE_BINDING])
        res == add_render_target(color.graph,
                [label |-> "hdr resolve", resolution |-> in.target.resolution, depth |-> 1,
                 mip_levels |-> Some(1), samples |-> 1,
                 format |-> "Rgba16Float", usage |-> RENDER_ATTACHMENT_TEXTURE_BINDING])
        resolve == IF needs_resolve(in.target.samples) THEN Some(res.handle) ELSE None
        g5 == IF needs_resolve(in.target.samples) THEN res.graph ELSE color.graph
        depth == DepthTargets_new(g5, in.target.resolution, in.target.samples)
        primary_renderpass ==
            [targets |-> <<[color |-> color.handle, resolve |-> resolve,
                            clear |-> se.clear_color]>>,
             depth_stencil |-> Some([target |-> rendering_target(depth.depth),
                                     depth_clear |-> Some(0),
                                     stencil_clear |-> None])]
        psb == add_data(depth.graph, "PreSkinningBuffers")
    IN  [graph |-> psb.graph,
         state |-> [shadow_uniform_bg |-> sbg.handle,
                    forward_uniform_bg |-> fbg.handle,
                    shadow |-> shadow.handle,
                    depth |-> depth.depth,
                    primary_renderpass |-> primary_renderpass,
                    pre_skinning_buffers |-> psb.handle]]

clear_shadow_buffers(g, st) ==
    add_node(g, [routine |-> "clear::add_depth_clear_to_graph",
                 target |-> st.shadow, depth_clear |-> 0])

\* create_frame_uniforms handing the shadow slot in both places
create_frame_uniforms_one_slot(g, st, in, se) ==
    add_node(g, [routine |-> "uniforms::add_to_graph",
                 shadow_target |-> st.shadow,
                 binding_handles |-> [interfaces |-> "base.interfaces",
                                      shadow_uniform_bg |-> st.shadow_uniform_bg,
                                      forward_uniform_bg |-> st.shadow_uniform_bg],
                 uniform_information |-> [samplers |-> "base.samplers",
                                          ambient |-> se.ambient_color,
                                          resolution |-> in.target.resolution]])

create_frame_uniforms(g, st, in, se) ==
    add_node(g, [routine |-> "uniforms::add_to_graph",
                 shadow_target |-> st.shadow,
                 binding_handles |-> [interfaces |-> "base.interfaces",
                                      shadow_uniform_bg |-> st.shadow_uniform_bg,
                                      forward_uniform_bg |-> st.forward_uniform_bg],
                 uniform_information |-> [samplers |-> "base.samplers",
                                          ambient |-> se.ambient_color,
                                          resolution |-> in.target.resolution]])

skinning(g) ==
    add_node(g, [routine |-> "skinning::add_skinning_to_graph",
                 gpu_skinner |-> "base.gpu_skinner"])

\* one ForwardRoutine::add_forward_to_graph call
add_forward_to_graph(g, routine, label, camera, bg, samples, renderpass) ==
    add_node(g, [routine |-> routine,
                 label |-> label,
                 camera |-> camera,
                 binding_data |-> [whole_frame_uniform_bg |-> bg,
                                   per_material_bgl |-> "pbr.per_material",
                                   extra_bgs |-> None],
                 samples |-> samples,
                 renderpass |-> renderpass])

\* the loop body rendering into the whole shadow target
shadow_pass_whole_target(g, st, desc, shadow_index) ==
    LET renderpass == [targets |-> <<>>,
                       depth_stencil |-> Some([target |-> st.shadow,
                                               depth_clear |-> Some(0),
                                               stencil_clear |-> None])]
        label == <<"pbr shadow renderering S", shadow_index>>
        camera == [kind |-> "Shadow", index |-> shadow_index]
        g1 == add_node(g, [routine |-> "pbr.opaque_depth", label |-> label,
                           camera |-> camera,
                           binding_data |-> [whole_frame_uniform_bg |-> st.shadow_uniform_bg,
                                             per_material_bgl |-> "pbr.per_material",
                                             extra_bgs |-> None],
                           samples |-> 1, renderpass |-> renderpass])
    IN  add_node(g1, [routine |-> "pbr.cutout_depth", label |-> label,
                      camera |-> camera,
                      binding_data |-> [whole_frame_uniform_bg |-> st.shadow_uniform_bg,
                                        per_material_bgl |-> "pbr.per_material",
                                        extra_bgs |-> None],
                      samples |-> 1, renderpass |-> renderpass])

\* body of the loop over the shadow list, for the entry at shadow_index (from 0)
shadow_pass(g, st, desc, shadow_index) ==
    LET target == set_viewport(st.shadow,
                      ViewportRect_new(desc.map.offset, UVec2_splat(desc.map.size)))
        renderpass == [targets |-> <<>>,
                       depth_stencil |-> Some([target |-> target,
                                               depth_clear |-> Some(0),
                                               stencil_clear |-> None])]
        label == <<"pbr shadow renderering S", shadow_index>>
        \* shadow_index as u32: the indices of a list this short are unchanged by the cast
        camera == [kind |-> "Shadow", index |-> shadow_index]
        g1 == add_forward_to_graph(g, "pbr.opaque_depth", label, camera,
                                   st.shadow_uniform_bg, 1, renderpass)
    IN  add_forward_to_graph(g1, "pbr.cutout_depth", label, camera,
                             st.shadow_uniform_bg, 1, renderpass)

RECURSIVE shadow_loop(_, _, _, _)
shadow_loop(g, st, shadows, i) ==
    IF i >= Len(shadows) THEN g
    ELSE shadow_loop(shadow_pass(g, st, shadows[i + 1], i), st, shadows, i + 1)

pbr_shadow_rendering(g, st, in) == shadow_loop(g, st, in.eval_output.shadows, 0)

\* skybox inserting its node whether or not a routine is supplied
skybox_unconditional(g, st, in) ==
    add_node(g, [routine |-> "skybox.add_to_graph",
                 renderpass |-> st.primary_renderpass,
                 forward_uniform_bg |-> st.forward_uniform_bg,
                 samples |-> in.target.samples])

skybox(g, st, in) ==
    IF in.routines.skybox /= None
    THEN add_node(g, [routine |-> "skybox.add_to_graph",
                      renderpass |-> st.primary_renderpass,
                      forward_uniform_bg |-> st.forward_uniform_bg,
                      samples |-> in.target.samples])
    ELSE g

\* pbr_render running the opaque routine only
pbr_render_opaque_only(g, st, in) ==
    add_forward_to_graph(g, "pbr.opaque_routine", "PBR Forward Pass", [kind |-> "Viewport"],
                         st.forward_uniform_bg, in.target.samples, st.primary_renderpass)

pbr_render(g, st, in) ==
    LET camera == [kind |-> "Viewport"]
        g1 == add_forward_to_graph(g, "pbr.opaque_routine", "PBR Forward Pass", camera,
                                   st.forward_uniform_bg, in.target.samples,
                                   st.primary_renderpass)
    IN  add_forward_to_graph(g1, "pbr.cutout_routine", "PBR Forward Pass", camera,
                             st.forward_uniform_bg, in.target.samples,
                             st.primary_renderpass)

\* the transparent pass rendering at sample count One
pbr_forward_rendering_transparent_one_sample(g, st, in) ==
    add_forward_to_graph(g, "pbr.blend_routine", "PBR Forward Transparent",
                         [kind |-> "Viewport"], st.forward_uniform_bg,
                         1, st.primary_renderpass)

pbr_forward_rendering_transparent(g, st, in) ==
    add_forward_to_graph(g, "pbr.blend_routine", "PBR Forward Transparent",
                         [kind |-> "Viewport"], st.forward_uniform_bg,
                         in.target.samples, st.primary_renderpass)

\* tonemapping reading the colour target itself
tonemapping_reads_color(g, st, in) ==
    add_node(g, [routine |-> "tonemapping.add_to_graph",
                 source |-> st.primary_renderpass.targets[1].color,
                 target |-> in.target.handle,
                 forward_uniform_bg |-> st.forward_uniform_bg])

tonemapping(g, st, in) ==
    add_node(g, [routine |-> "tonemapping.add_to_graph",
                 source |-> resolved_color(st.primary_renderpass, 0),
                 target |-> in.target.handle,
                 forward_uniform_bg |-> st.forward_uniform_bg])

\* add_to_graph rendering the shadow maps after the opaque and cutout passes
AddToGraphCalls_shadows_late ==
    <<"new",
      "clear_shadow_buffers",
      "create_frame_uniforms",
      "skinning",
      "pbr_render",
      "pbr_shadow_rendering",
      "skybox",
      "pbr_forward_rendering_transparent",
      "tonemapping">>

\* BaseRenderGraph::add_to_graph: the calls it makes on the intermediate state, in order
AddToGraphCalls ==
    <<"new",
      "clear_shadow_buffers",
      "create_frame_uniforms",
      "skinning",
      "pbr_shadow_rendering",
      "pbr_render",
      "skybox",
      "pbr_forward_rendering_transparent",
      "tonemapping">>

\* the graph after the named method of the intermediate state st
CallMethod(name, g, st, in, se) ==
    CASE name = "clear_shadow_buffers" -> clear_shadow_buffers(g, st)
      [] name = "create_frame_uniforms" -> create_frame_uniforms(g, st, in, se)
      [] name = "skinning" -> skinning(g)
      [] name = "pbr_shadow_rendering" -> pbr_shadow_rendering(g, st, in)
      [] name = "pbr_render" -> pbr_render(g, st, in)
      [] name = "skybox" -> skybox(g, st, in)
      [] name = "pbr_forward_rendering_transparent" ->
             pbr_forward_rendering_transparent(g, st, in)
      [] name = "tonemapping" -> tonemapping(g, st, in)

RECURSIVE run_calls(_, _, _, _, _)
run_calls(g, st, in, se, i) ==
    IF i > Len(AddToGraphCalls) THEN g
    ELSE run_calls(CallMethod(AddToGraphCalls[i], g, st, in, se), st, in, se, i + 1)

\* BaseRenderGraph::add_to_graph as one function of its inputs: the finished graph
add_to_graph(g, in, se) ==
    LET n == IntermediateState_new(g, in, se)
    IN  run_calls(n.graph, n.state, in, se, 2)

----------------------------------------------------------------------------
(* base.rs: add_to_graph, one step per call it makes; pc is the position of *)
(* the next call in AddToGraphCalls                                         *)

Uninit == [shadow_uniform_bg |-> None]

Done == Len(AddToGraphCalls) + 1

At(name) == pc \in 1..Len(AddToGraphCalls) /\ AddToGraphCalls[pc] = name

StateNew ==
    /\ At("new")
    /\ LET n == IntermediateState_new(graph, inputs, settings)
       IN  graph' = n.graph /\ state' = n.state
    /\ pc' = pc + 1
    /\ UNCHANGED <<inputs, settings>>
    /\ UNCHANGED camVars

\* a method of the intermediate state that only adds to the graph
Stage(name) ==
    /\ graph' = CallMethod(name, graph, state, inputs, settings)
    /\ pc' = pc + 1
    /\ UNCHANGED <<inputs, settings, state>>
    /\ UNCHANGED camVars

ClearShadowBuffers ==
    /\ At("clear_shadow_buffers")
    /\ Stage("clear_shadow_buffers")

CreateFrameUniforms ==
    /\ At("create_frame_uniforms")
    /\ Stage("create_frame_uniforms")

Skinning ==
    /\ At("skinning")
    /\ Stage("skinning")

PbrShadowRendering ==
    /\ At("pbr_shadow_rendering")
    /\ Stage("pbr_shadow_rendering")

PbrRender ==
    /\ At("pbr_render")
    /\ Stage("pbr_render")

Skybox ==
    /\ At("skybox")
    /\ Stage("skybox")

PbrForwardRenderingTransparent ==
    /\ At("pbr_forward_rendering_transparent")
    /\ Stage("pbr_forward_rendering_transparent")

Tonemapping ==
    /\ At("tonemapping")
    /\ Stage("tonemapping")


----------------------------------------------------------------------------
(* Specifications *)

CameraInit ==
    \E d \in Cameras, opt \in AspectOptions, l \in Locations :
        /\ Is(CameraManager_new(d, opt))
        /\ twin = CameraManager_new(AtLocation(d, l), opt)
        /\ supplied = d
        /\ old_aspect_ratio = unwrap_or(opt, Fx)
        /\ call = [op |-> "new", data |-> Some(d), aspect |-> opt]
        /\ ret = NoRet

GraphInit ==
    /\ graph = EmptyGraph
    /\ inputs \in Inputs
    /\ settings \in Settings
    /\ state = Uninit
    /\ pc = 1

\* one fixed camera while the graph is assembled
CameraIdle ==
    LET d == [location |-> <<0, 0, 0>>,
              projection |-> [kind |-> "Projection", vfov |-> 60, near |-> 1,
                              yaw |-> 0, pitch |-> 0]]
    IN  /\ Is(CameraManager_new(d, None))
        /\ twin = CameraManager_new(d, None)
        /\ supplied = d
        /\ old_aspect_ratio = Fx
        /\ call = [op |-> "new", data |-> Some(d), aspect |-> None]
        /\ ret = NoRet

\* no frame under assembly while the camera is driven
GraphIdle ==
    /\ graph = EmptyGraph
    /\ inputs = CHOOSE in \in Inputs : TRUE
    /\ settings = CHOOSE se \in Settings : TRUE
    /\ state = Uninit
    /\ pc = 0

Init == CameraInit /\ GraphIdle

Next ==
    \/ New
    \/ SetData
    \/ SetAspectRatio
    \/ SetAspectData
    \/ GetData
    \/ View
    \/ ViewProj
    \/ OriginViewProj
    \/ Proj

Spec == Init /\ [][Next]_vars

GraphSpecInit == CameraIdle /\ GraphInit

GraphNext ==
    \/ StateNew
    \/ ClearShadowBuffers
    \/ CreateFrameUniforms
    \/ Skinning
    \/ PbrShadowRendering
    \/ PbrRender
    \/ Skybox
    \/ PbrForwardRenderingTransparent
    \/ Tonemapping

GraphSpec == GraphSpecInit /\ [][GraphNext]_vars

----------------------------------------------------------------------------
(* Claims about CameraManager, checked under Spec *)

Accessors == {"get_data", "view", "view_proj", "origin_view_proj", "proj"}

IsPerspective(d) == d.projection.kind = "Projection"

\* C1: in every state the cached proj is the projection of the stored pose under
\* the stored aspect ratio and the cached view and orig_view are those of the
\* stored pose, so view_proj() and origin_view_proj() are never stale.
C1_NeverStale ==
    /\ proj = compute_projection_matrix(data, aspect_ratio)
    /\ view = compute_view_matrix(data)
    /\ orig_view = compute_origin_matrix(data)
    /\ view_proj(Self) =
           MatMul(compute_projection_matrix(data, aspect_ratio), compute_view_matrix(data))
    /\ origin_view_proj(Self) =
           MatMul(compute_projection_matrix(data, aspect_ratio), compute_origin_matrix(data))

\* C7: a set_data(pose) step stores pose, keeps the stored aspect ratio, and leaves
\* view, orig_view and proj computed from the new pose and the stored aspect ratio.
C7_SetDataEffect ==
    [][call'.op = "set_data" =>
          /\ data' = call'.data[1]
          /\ aspect_ratio' = aspect_ratio
          /\ view' = compute_view_matrix(call'.data[1])
          /\ orig_view' = compute_origin_matrix(call'.data[1])
          /\ proj' = compute_projection_matrix(call'.data[1], aspect_ratio)]_vars

\* C7: set_data has returned on a perspective camera whose aspect ratio is not the default
C7_Witness ==
    /\ call.op = "set_data"
    /\ IsPerspective(data)
    /\ aspect_ratio /= Fx
    /\ proj = compute_projection_matrix(data, aspect_ratio)
    /\ proj /= compute_projection_matrix(data, Fx)

\* C8: two cameras driven by the same calls with poses that differ only in location
\* have the same orig_view in every state.
C8_OriginViewIgnoresLocation ==
    (/\ twin.data.projection = data.projection
     /\ twin.aspect_ratio = aspect_ratio)
    => twin.orig_view = orig_view

\* C8: the two cameras stand at different locations, with different view matrices
C8_Witness ==
    /\ call.op \in {"set_data", "set_aspect_data"}
    /\ twin.data.projection = data.projection
    /\ twin.data.location /= data.location
    /\ twin.view /= view
    /\ twin.orig_view = orig_view

\* C9: new(pose, None) gives the state new(pose, Some(1.0)) gives, and from any
\* state set_aspect_ratio(None) gives the state set_aspect_ratio(Some(1.0)) gives.
C9_NoneIsOne ==
    /\ [](call.op = "new" /\ call.aspect = None
            => Self = CameraManager_new(call.data[1], Some(Fx)))
    /\ [][call'.op = "set_aspect_ratio" /\ call'.aspect = None
            => Self' = set_aspect_ratio(Self, Some(Fx))]_vars

\* C9: set_aspect_ratio(None) has returned on a perspective camera
C9_Witness ==
    /\ call.op = "set_aspect_ratio"
    /\ call.aspect = None
    /\ IsPerspective(data)
    /\ aspect_ratio = Fx
    /\ proj /= compute_projection_matrix(data, Fx)

\* C10: view_proj() returns proj * view and origin_view_proj() returns
\* proj * orig_view of the cached matrices, view(), proj() and get_data() return the
\* cached fields, and no accessor changes a field of the camera.
C10_AccessorsReadCache ==
    /\ [](/\ call.op = "view_proj" => ret = MatMul(proj, view)
          /\ call.op = "origin_view_proj" => ret = MatMul(proj, orig_view)
          /\ call.op = "view" => ret = view
          /\ call.op = "proj" => ret = proj
          /\ call.op = "get_data" => ret = data)
    /\ [][call'.op \in Accessors
            => UNCHANGED <<orig_view, view, proj, data, aspect_ratio>>]_vars

\* C10: view_proj() has returned on a camera away from the origin
C10_Witness ==
    /\ call.op = "view_proj"
    /\ ret = MatMul(proj, view)
    /\ ret /= MatMul(view, proj)
    /\ ret /= MatMul(proj, orig_view)

Updates == {"new", "set_data", "set_aspect_ratio", "set_aspect_data"}

\* C11: a set_aspect_ratio(a) step leaves the stored pose unchanged, stores a (1.0
\* for None) as the aspect ratio, and leaves view and orig_view as they were.
C11_SetAspectRatioEffect ==
    [][call'.op = "set_aspect_ratio" =>
          /\ data' = data
          /\ aspect_ratio' = unwrap_or(call'.aspect, Fx)
          /\ view' = view
          /\ orig_view' = orig_view]_vars

\* C11: set_aspect_ratio(Some(a)) has returned, a not the default, on a camera away
\* from the origin
C11_Witness ==
    /\ call.op = "set_aspect_ratio"
    /\ call.aspect /= None
    /\ aspect_ratio = call.aspect[1]
    /\ aspect_ratio /= Fx
    /\ data.location /= Vec3_ZERO
    /\ view /= orig_view

\* C12: a set_aspect_data(pose, a) step leaves proj the projection of the new pose
\* under the aspect ratio stored before the call, and stores a as the aspect ratio.
C12_SetAspectDataUsesOldRatio ==
    [][call'.op = "set_aspect_data" =>
          /\ proj' = compute_projection_matrix(call'.data[1], aspect_ratio)
          /\ data' = call'.data[1]
          /\ aspect_ratio' = call'.aspect[1]]_vars

\* C12: set_aspect_data has returned on a perspective pose with a new ratio, and proj
\* is the projection for the previous ratio, not for the stored one
C12_Witness ==
    /\ call.op = "set_aspect_data"
    /\ IsPerspective(data)
    /\ aspect_ratio = call.aspect[1]
    /\ aspect_ratio /= old_aspect_ratio
    /\ proj = compute_projection_matrix(data, old_aspect_ratio)
    /\ proj /= compute_projection_matrix(data, aspect_ratio)

\* C17: in every state view and orig_view are those computed from the stored pose,
\* the stored pose is the one most recently supplied by new, set_data or
\* set_aspect_data, and get_data() returns it.
C17_ViewNeverStale ==
    /\ view = compute_view_matrix(data)
    /\ orig_view = compute_origin_matrix(data)
    /\ data = supplied
    /\ call.op = "get_data" => ret = supplied

\* C17: get_data() has returned after the aspect ratio was changed, on a camera away
\* from the origin
C17_Witness ==
    /\ call.op = "get_data"
    /\ ret = supplied
    /\ aspect_ratio /= old_aspect_ratio
    /\ data.location /= Vec3_ZERO
    /\ view = compute_view_matrix(supplied)

\* C18: in every state proj is the projection of the stored pose under the aspect
\* ratio stored just before the most recent update call (the constructor's ratio if
\* there was none), and for an orthographic pose under any aspect ratio; and an
\* update step that keeps the aspect ratio leaves proj the projection of the stored
\* pose under the stored ratio.
C18_ProjLagsOneUpdate ==
    /\ [](/\ proj = compute_projection_matrix(data, old_aspect_ratio)
          /\ ~IsPerspective(data) =>
                 \A a \in AspectRatios : proj = compute_projection_matrix(data, a))
    /\ [][call'.op \in Updates /\ aspect_ratio' = aspect_ratio
            => proj' = compute_projection_matrix(data', aspect_ratio')]_vars

\* C18: set_aspect_ratio has returned on a perspective camera with a new ratio, and
\* proj lags behind it
C18_Witness ==
    /\ call.op = "set_aspect_ratio"
    /\ IsPerspective(data)
    /\ aspect_ratio /= old_aspect_ratio
    /\ proj = compute_projection_matrix(data, old_aspect_ratio)
    /\ proj /= compute_projection_matrix(data, aspect_ratio)

----------------------------------------------------------------------------
(* Claims about the graph assembly, checked under GraphSpec *)

nodes == graph.nodes
shadows == inputs.eval_output.shadows

\* position in AddToGraphCalls of the named call
PosOf(name) == CHOOSE i \in 1..Len(AddToGraphCalls) : AddToGraphCalls[i] = name

\* the named call has returned
After(name) == pc > PosOf(name)

ShadowRoutines == {"pbr.opaque_depth", "pbr.cutout_depth"}
MainRoutines == {"pbr.opaque_routine", "pbr.cutout_routine"}

\* the pipeline stage a node belongs to, by the routine that inserted it
StageOf(node) ==
    CASE node.routine = "clear::add_depth_clear_to_graph" -> 1
      [] node.routine = "uniforms::add_to_graph" -> 2
      [] node.routine = "skinning::add_skinning_to_graph" -> 3
      [] node.routine \in ShadowRoutines -> 4
      [] node.routine \in MainRoutines -> 5
      [] node.routine = "skybox.add_to_graph" -> 6
      [] node.routine = "pbr.blend_routine" -> 7
      [] node.routine = "tonemapping.add_to_graph" -> 8

NodesOfStage(k) == {i \in DOMAIN nodes : StageOf(nodes[i]) = k}

\* C2: nodes are inserted in the stage order clear, uniforms, skinning, shadow,
\* opaque/cutout, skybox, transparent, tonemapping; when add_to_graph returns there
\* is exactly one shadow-clear node, every shadow pass node lies after it and before
\* the first opaque/cutout node, and the tonemapping node is the last one.
C2_StageOrder ==
    /\ \A i, j \in DOMAIN nodes : i < j => StageOf(nodes[i]) <= StageOf(nodes[j])
    /\ \A name \in {"clear_shadow_buffers", "create_frame_uniforms", "skinning",
                    "pbr_render", "pbr_forward_rendering_transparent", "tonemapping"} :
           LET k == CASE name = "clear_shadow_buffers" -> 1
                      [] name = "create_frame_uniforms" -> 2
                      [] name = "skinning" -> 3
                      [] name = "pbr_render" -> 5
                      [] name = "pbr_forward_rendering_transparent" -> 7
                      [] name = "tonemapping" -> 8
           IN  (NodesOfStage(k) /= {}) <=> After(name)
    /\ pc = Done =>
           /\ Cardinality(NodesOfStage(1)) = 1
           /\ \A s \in NodesOfStage(4) :
                  /\ \A c \in NodesOfStage(1) : c < s
                  /\ \A m \in NodesOfStage(5) : s < m
           /\ StageOf(nodes[Len(nodes)]) = 8
           /\ Cardinality(NodesOfStage(8)) = 1

\* C2: a finished graph with two shadow entries, a skybox and multisampling
C2_Witness ==
    /\ pc = Done
    /\ Len(shadows) = 2
    /\ inputs.routines.skybox /= None
    /\ inputs.target.samples = 4
    /\ Cardinality(NodesOfStage(4)) = 4
    /\ {StageOf(nodes[i]) : i \in DOMAIN nodes} = 1..8

IsShadowNode(node) == node.routine \in ShadowRoutines
ShadowNodes == SelectSeq(nodes, IsShadowNode)

\* what the claim requires of a shadow pass node for entry i (from 0) of the list
ShadowNodeFor(node, i) ==
    /\ node.renderpass.targets = <<>>
    /\ node.renderpass.depth_stencil /= None
    /\ node.renderpass.depth_stencil[1].target =
           [resource |-> state.shadow.resource,
            mips |-> state.shadow.mips,
            viewport |-> Some([offset |-> shadows[i + 1].map.offset,
                               size |-> <<shadows[i + 1].map.size,
                                          shadows[i + 1].map.size>>])]
    /\ node.camera = [kind |-> "Shadow", index |-> i]
    /\ node.binding_data.whole_frame_uniform_bg = state.shadow_uniform_bg
    /\ node.samples = 1

\* C3: pbr_shadow_rendering issues exactly one pair of shadow pass invocations per
\* entry of the shadow list, in list order; the pair for entry i uses the shadow
\* target restricted to that entry's offset and square size and camera Shadow(i),
\* opaque-depth before cutout-depth, with no colour attachments, the shadow-uniform
\* slot and sample count One; for an empty list it issues none.
C3_ShadowPairs ==
    /\ ~After("pbr_shadow_rendering") => ShadowNodes = <<>>
    /\ After("pbr_shadow_rendering") =>
           /\ Len(ShadowNodes) = 2 * Len(shadows)
           /\ \A i \in 0..(Len(shadows) - 1) :
                  /\ ShadowNodes[2 * i + 1].routine = "pbr.opaque_depth"
                  /\ ShadowNodes[2 * i + 2].routine = "pbr.cutout_depth"
                  /\ ShadowNodeFor(ShadowNodes[2 * i + 1], i)
                  /\ ShadowNodeFor(ShadowNodes[2 * i + 2], i)

\* C3: shadow passes were issued for two entries with different atlas rectangles
C3_Witness ==
    /\ After("pbr_shadow_rendering")
    /\ Len(shadows) = 2
    /\ shadows[1].map.offset /= shadows[2].map.offset
    /\ shadows[1].map.size /= shadows[2].map.size
    /\ Len(ShadowNodes) = 4
    /\ ShadowNodes[3].renderpass.depth_stencil[1].target.viewport =
           Some([offset |-> shadows[2].map.offset,
                 size |-> <<shadows[2].map.size, shadows[2].map.size>>])

TargetsLabelled(label) == {i \in DOMAIN graph.targets : graph.targets[i].label = label}

PlainHandle(i) == [resource |-> i, mips |-> None, viewport |-> None]

PrimaryDepthTarget == state.primary_renderpass.depth_stencil[1].target

\* C4: after new, with sample count 1 no resolve target and no multisample depth
\* target is allocated and the primary depth attachment is the single-sample mipped
\* depth target restricted to mip level 0; with sample count > 1 exactly one
\* single-sample resolve target and one multisample depth target are allocated, the
\* primary colour attachment carries the resolve target and the primary depth
\* attachment is the multisample depth target.
C4_MultisampleTargets ==
    After("new") =>
        LET samples == inputs.target.samples
            resolves == TargetsLabelled("hdr resolve")
            msdepths == TargetsLabelled("hdr depth multisampled")
            single == state.depth.single_sample_mipped
        IN  /\ Len(state.primary_renderpass.targets) = 1
            /\ state.primary_renderpass.depth_stencil /= None
            /\ graph.targets[single.resource].samples = 1
            /\ graph.targets[single.resource].mip_levels = None
            /\ samples = 1 =>
                   /\ resolves = {}
                   /\ msdepths = {}
                   /\ Len(graph.targets) = 3
                   /\ \A i \in DOMAIN graph.targets : graph.targets[i].samples = 1
                   /\ state.primary_renderpass.targets[1].resolve = None
                   /\ state.depth.multi_sample = None
                   /\ PrimaryDepthTarget =
                          [resource |-> single.resource, mips |-> Some(<<0, 1>>),
                           viewport |-> None]
            /\ samples > 1 =>
                   /\ Cardinality(resolves) = 1
                   /\ Cardinality(msdepths) = 1
                   /\ Len(graph.targets) = 5
                   /\ \A i \in resolves :
                          /\ graph.targets[i].samples = 1
                          /\ state.primary_renderpass.targets[1].resolve = Some(PlainHandle(i))
                   /\ \A i \in msdepths :
                          /\ graph.targets[i].samples = samples
                          /\ graph.targets[i].format = "Depth32Float"
                          /\ state.depth.multi_sample = Some(PlainHandle(i))
                          /\ PrimaryDepthTarget = PlainHandle(i)

\* C4: new has returned for a multisampled output
C4_Witness ==
    /\ After("new")
    /\ inputs.target.samples = 4
    /\ graph.targets[PrimaryDepthTarget.resource].samples = 4
    /\ state.primary_renderpass.targets[1].resolve /= None

IsSkyboxNode(node) == node.routine = "skybox.add_to_graph"
NotSkyboxNode(node) == ~IsSkyboxNode(node)

\* the inputs with the skybox routine supplied if it was omitted and omitted if supplied
OtherSkybox(in) ==
    [in EXCEPT !.routines.skybox = IF @ = None THEN Some("skybox") ELSE None]

\* C5: without a skybox routine add_to_graph inserts no skybox node and all its other
\* nodes are, in content and order, those of the run with a skybox routine; with one
\* it inserts exactly one skybox node, after the cutout pass and before the
\* transparent pass.
C5_SkyboxOptional ==
    pc = Done =>
        LET other == add_to_graph(EmptyGraph, OtherSkybox(inputs), settings).nodes
            sky == {i \in DOMAIN nodes : IsSkyboxNode(nodes[i])}
        IN  /\ SelectSeq(nodes, NotSkyboxNode) = SelectSeq(other, NotSkyboxNode)
            /\ inputs.routines.skybox = None =>
                   /\ sky = {}
                   /\ Len(other) = Len(nodes) + 1
            /\ inputs.routines.skybox /= None =>
                   /\ Cardinality(sky) = 1
                   /\ \A i \in sky :
                          /\ i > 1 /\ i < Len(nodes)
                          /\ nodes[i - 1].routine = "pbr.cutout_routine"
                          /\ nodes[i + 1].routine = "pbr.blend_routine"

\* C5: a finished graph assembled without a skybox routine
C5_Witness ==
    /\ pc = Done
    /\ inputs.routines.skybox = None
    /\ Len(shadows) = 2
    /\ \A i \in DOMAIN nodes : ~IsSkyboxNode(nodes[i])
    /\ \E i \in DOMAIN nodes : nodes[i].routine = "pbr.blend_routine"

\* the shared slots a node is handed to populate
Produced(node) ==
    IF node.routine = "uniforms::add_to_graph"
    THEN {node.binding_handles.shadow_uniform_bg, node.binding_handles.forward_uniform_bg}
    ELSE {}

\* the shared uniform slot a node is bound to as a reader
Consumed(node) ==
    CASE node.routine \in ShadowRoutines \cup MainRoutines \cup {"pbr.blend_routine"} ->
             {node.binding_data.whole_frame_uniform_bg}
      [] node.routine \in {"skybox.add_to_graph", "tonemapping.add_to_graph"} ->
             {node.forward_uniform_bg}
      [] OTHER -> {}

Producers == {i \in DOMAIN nodes : Produced(nodes[i]) /= {}}

\* C6: the shadow-uniform and main-uniform slots are allocated by new before any node
\* is inserted; the frame-uniforms node is the only node handed them as a producer and
\* precedes every node that consumes them; shadow passes are bound to the
\* shadow-uniform slot and opaque, cutout, skybox, transparent and tonemapping passes
\* to the main-uniform slot.
C6_SingleWriterThenReaders ==
    /\ ~After("new") => nodes = <<>>
    /\ After("new") =>
           /\ state.shadow_uniform_bg /= state.forward_uniform_bg
           /\ \A h \in {state.shadow_uniform_bg, state.forward_uniform_bg} :
                  /\ h.data \in DOMAIN graph.data
                  /\ graph.data[h.data] = "BindGroup"
           /\ \A i \in Producers :
                  /\ nodes[i].routine = "uniforms::add_to_graph"
                  /\ Produced(nodes[i]) = {state.shadow_uniform_bg, state.forward_uniform_bg}
           /\ Cardinality(Producers) = IF After("create_frame_uniforms") THEN 1 ELSE 0
           /\ \A j \in DOMAIN nodes :
                  /\ \A h \in Consumed(nodes[j]) :
                         \E i \in Producers : i < j /\ h \in Produced(nodes[i])
                  /\ StageOf(nodes[j]) = 4 => Consumed(nodes[j]) = {state.shadow_uniform_bg}
                  /\ StageOf(nodes[j]) \in 5..8 =>
                         Consumed(nodes[j]) = {state.forward_uniform_bg}

\* C6: a finished graph in which both slots have readers
C6_Witness ==
    /\ pc = Done
    /\ Cardinality(Producers) = 1
    /\ \E j \in DOMAIN nodes : Consumed(nodes[j]) = {state.shadow_uniform_bg}
    /\ \E j \in DOMAIN nodes :
           IsSkyboxNode(nodes[j]) /\ Consumed(nodes[j]) = {state.forward_uniform_bg}

\* the shared slots (DataHandles) among the arguments a node's routine was called with
DataHandlesGiven(node) ==
    CASE node.routine = "uniforms::add_to_graph" ->
             {node.binding_handles.shadow_uniform_bg, node.binding_handles.forward_uniform_bg}
      [] node.routine \in ShadowRoutines \cup MainRoutines \cup {"pbr.blend_routine"} ->
             {node.binding_data.whole_frame_uniform_bg}
      [] node.routine \in {"skybox.add_to_graph", "tonemapping.add_to_graph"} ->
             {node.forward_uniform_bg}
      [] OTHER -> {}

\* C13: the pre-skinning-buffers slot is the last slot new allocates, the skinning
\* node is handed it (as its output), and the shadow, opaque/cutout and transparent
\* pass nodes are handed it (as readers).
C13_PreSkinningSlotUsed ==
    After("new") =>
        /\ state.pre_skinning_buffers.data = Len(graph.data)
        /\ graph.data[state.pre_skinning_buffers.data] = "PreSkinningBuffers"
        /\ \A i \in DOMAIN nodes :
               /\ StageOf(nodes[i]) = 3 =>
                      state.pre_skinning_buffers \in DataHandlesGiven(nodes[i])
               /\ StageOf(nodes[i]) \in {4, 5, 7} =>
                      state.pre_skinning_buffers \in DataHandlesGiven(nodes[i])

\* C14: for every sample count the tonemapping node reads a single-sample target,
\* the resolve target of primary colour attachment 0 when the sample count is > 1
\* and the colour target itself when it is 1, together with the main-uniform slot,
\* and it writes to inputs.target.handle, which is none of the targets the assembly
\* allocated.
C14_TonemappingReadsResolved ==
    After("tonemapping") =>
        LET attachment == state.primary_renderpass.targets[1]
        IN  /\ Cardinality(NodesOfStage(8)) = 1
            /\ \A i \in NodesOfStage(8) :
                   /\ nodes[i].source.resource \in DOMAIN graph.targets
                   /\ graph.targets[nodes[i].source.resource].samples = 1
                   /\ inputs.target.samples > 1 =>
                          /\ attachment.resolve /= None
                          /\ nodes[i].source = attachment.resolve[1]
                          /\ nodes[i].source /= attachment.color
                   /\ inputs.target.samples = 1 => nodes[i].source = attachment.color
                   /\ nodes[i].forward_uniform_bg = state.forward_uniform_bg
                   /\ nodes[i].target = inputs.target.handle
                   /\ nodes[i].target.resource \notin DOMAIN graph.targets

\* C14: tonemapping was inserted for a multisampled output and reads the resolve target
C14_Witness ==
    /\ After("tonemapping")
    /\ inputs.target.samples = 4
    /\ graph.targets[state.primary_renderpass.targets[1].color.resource].samples = 4
    /\ \E i \in NodesOfStage(8) :
           graph.targets[nodes[i].source.resource].label = "hdr resolve"

\* the call of add_to_graph that makes up pipeline stage k
StageCall(k) ==
    CASE k = 1 -> "clear_shadow_buffers"
      [] k = 2 -> "create_frame_uniforms"
      [] k = 3 -> "skinning"
      [] k = 4 -> "pbr_shadow_rendering"
      [] k = 5 -> "pbr_render"
      [] k = 6 -> "skybox"
      [] k = 7 -> "pbr_forward_rendering_transparent"
      [] k = 8 -> "tonemapping"

SkyboxSupplied == inputs.routines.skybox /= None

\* C15 as stated: counting one node per routine invocation, each stage that has run
\* has inserted exactly one node (the skybox stage when a routine is supplied), except
\* the shadow stage, which has inserted exactly one node per entry of the shadow list.
C15_OneNodePerStage ==
    \A k \in 1..8 :
        After(StageCall(k)) =>
            Cardinality(NodesOfStage(k)) =
                CASE k = 4 -> Len(shadows)
                  [] k = 6 -> IF SkyboxSupplied THEN 1 ELSE 0
                  [] OTHER -> 1

\* C15 as amended: each stage that has run has inserted exactly one node, except the
\* shadow stage (two nodes per entry of the shadow list), the opaque/cutout stage
\* (two nodes) and the skybox stage (one node if a routine is supplied, else none);
\* a stage that has not run has inserted none.
C15_NodesPerStage ==
    \A k \in 1..8 :
        Cardinality(NodesOfStage(k)) =
            IF ~After(StageCall(k)) THEN 0
            ELSE CASE k = 4 -> 2 * Len(shadows)
                   [] k = 5 -> 2
                   [] k = 6 -> IF SkyboxSupplied THEN 1 ELSE 0
                   [] OTHER -> 1

\* C15: a finished graph with two shadow entries and no skybox routine
C15_Witness ==
    /\ pc = Done
    /\ Len(shadows) = 2
    /\ ~SkyboxSupplied
    /\ Cardinality(NodesOfStage(4)) = 4
    /\ Cardinality(NodesOfStage(5)) = 2
    /\ Len(nodes) = 11

\* C16: the opaque, cutout, skybox and transparent nodes all receive the primary pass
\* target set built in new (colour attachment cleared to the frame's clear colour,
\* depth cleared to 0.0, no stencil clear) and the output's sample count; every
\* shadow pass node and the shadow-clear node use depth clear 0.0 on the shadow target.
C16_TargetsAndClears ==
    After("new") =>
        /\ Len(state.primary_renderpass.targets) = 1
        /\ state.primary_renderpass.targets[1].clear = settings.clear_color
        /\ state.primary_renderpass.depth_stencil /= None
        /\ state.primary_renderpass.depth_stencil[1].depth_clear = Some(0)
        /\ state.primary_renderpass.depth_stencil[1].stencil_clear = None
        /\ \A i \in DOMAIN nodes :
               /\ StageOf(nodes[i]) \in {5, 6, 7} =>
                      /\ nodes[i].renderpass = state.primary_renderpass
                      /\ nodes[i].samples = inputs.target.samples
               /\ StageOf(nodes[i]) = 4 =>
                      /\ nodes[i].renderpass.depth_stencil /= None
                      /\ nodes[i].renderpass.depth_stencil[1].depth_clear = Some(0)
                      /\ nodes[i].renderpass.depth_stencil[1].target.resource =
                             state.shadow.resource
               /\ StageOf(nodes[i]) = 1 =>
                      /\ nodes[i].depth_clear = 0
                      /\ nodes[i].target = state.shadow

\* C16: a finished multisampled graph with shadow passes, a skybox and a clear colour
\* other than the first
C16_Witness ==
    /\ pc = Done
    /\ inputs.target.samples = 4
    /\ settings.clear_color = "blue"
    /\ SkyboxSupplied
    /\ Len(shadows) = 2
    /\ \A k \in 4..7 : NodesOfStage(k) /= {}
    /\ \A i \in NodesOfStage(7) : nodes[i].samples = 4

====
